---- MODULE Spec2Model ----
(***************************************************************************)
(* A model of Load_Balancer.cpp: Destination load accounting, Service     *)
(* membership, the LoadBalancer routing table and the three balancing     *)
(* policies (LeastConnection, Routed, RoundRobin).                        *)
(*                                                                         *)
(* A Destination* is modelled by its address, a positive integer; 0 is    *)
(* nullptr.  std::set<Destination*> enumerates in increasing address      *)
(* order.  std::hash<string> is an implementation-defined function that   *)
(* is fixed for one run of the program: it is chosen in Init and never    *)
(* changes.                                                                *)
(***************************************************************************)
EXTENDS Integers, Sequences, FiniteSets, TLC

\* ------------------------------------------------------------------ bounds
NumDest == 3
MaxThreshold == 2
MaxHash == 3
MaxRoutes == 4

Dests == 1..NumDest
nullptr == 0
Services == {"s1", "s2"}
Routers == {"R1", "R2"}
Types == {"http", "grpc"}
Ids == {"REQ1", "REQ2"}
Policies == {"LeastConnection", "Routed", "RoundRobin"}

NoServiceFound == "No service found for the request type."
NoDestinations == "No destinations available."
NoThrow == ""

VARIABLES
    requestsBeingServed,  \* Destination::requestsBeingServed, per address
    threshold,            \* Destination::threshold, per address
    destinations,         \* Service::destinations, per constructed Service
    policy,               \* dynamic type of each constructed LoadBalancer
    serviceMap,           \* LoadBalancer::serviceMap, per LoadBalancer
    destinationQueues,    \* RoundRobinLoadBalancer::destinationQueues
    hashOf,               \* std::hash<string> of this build
    call,                 \* the last call made by the caller and its outcome
    captured,             \* history: the queue as built at line 123-125
    served,               \* history: successful RoundRobin routes per type
    returned,             \* history: what those routes returned, in order
    answered,             \* history: Routed answers since the set last changed
    lastRegistered,       \* history: the Service last registered per type
    callers               \* the concurrent callers: where each is, and with
                          \* which Destination (none in a sequential program)

vars == <<requestsBeingServed, threshold, destinations, policy, serviceMap,
          destinationQueues, hashOf, call, captured, served, returned, answered,
          lastRegistered, callers>>

destVars == <<requestsBeingServed, threshold>>
histVars == <<captured, served, returned, answered, lastRegistered>>

\* ------------------------------------------------------------ the caller
Request(id, requestType) == [id |-> id, requestType |-> requestType]
NoRequest == Request("", "")

Call(op, dest, service, lb, request, accepted, ret, thrown) ==
    [op |-> op, dest |-> dest, service |-> service, lb |-> lb,
     request |-> request, accepted |-> accepted, ret |-> ret, thrown |-> thrown]

NoCall == Call("none", nullptr, "", "", NoRequest, FALSE, nullptr, NoThrow)

\* --------------------------------------------------------------- helpers
\* Restriction of a map to the keys in K, and a map with one key (re)bound.
Restrict(f, K) == [k \in (DOMAIN f) \cap K |-> f[k]]
Put(f, k, v) == [x \in (DOMAIN f) \cup {k} |-> IF x = k THEN v ELSE f[x]]

\* Iteration order of std::set<Destination*>: increasing address.
RECURSIVE Enumerate(_)
Enumerate(S) ==
    IF S = {} THEN <<>>
    ELSE LET m == CHOOSE x \in S : \A y \in S : x <= y
         IN  <<m>> \o Enumerate(S \ {m})

\* ----------------------------------------------------------- Destination
acceptRequest_unguarded(d) ==
    /\ requestsBeingServed' = [requestsBeingServed EXCEPT ![d] = @ + 1]
    /\ call' = Call("acceptRequest", d, "", "", NoRequest, TRUE, nullptr, NoThrow)
    /\ UNCHANGED <<threshold, destinations, policy, serviceMap,
                   destinationQueues, hashOf, histVars>>

acceptRequest(d) ==
    /\ IF requestsBeingServed[d] < threshold[d]
       THEN /\ requestsBeingServed' = [requestsBeingServed EXCEPT ![d] = @ + 1]
            /\ call' = Call("acceptRequest", d, "", "", NoRequest, TRUE,
                            nullptr, NoThrow)
       ELSE /\ requestsBeingServed' = requestsBeingServed
            /\ call' = Call("acceptRequest", d, "", "", NoRequest, FALSE,
                            nullptr, NoThrow)
    /\ UNCHANGED <<threshold, destinations, policy, serviceMap,
                   destinationQueues, hashOf, histVars>>

completeRequest_unguarded(d) ==
    /\ requestsBeingServed' = [requestsBeingServed EXCEPT ![d] = @ - 1]
    /\ call' = Call("completeRequest", d, "", "", NoRequest, FALSE, nullptr, NoThrow)
    /\ UNCHANGED <<threshold, destinations, policy, serviceMap,
                   destinationQueues, hashOf, histVars>>

completeRequest(d) ==
    /\ IF requestsBeingServed[d] > 0
       THEN requestsBeingServed' = [requestsBeingServed EXCEPT ![d] = @ - 1]
       ELSE requestsBeingServed' = requestsBeingServed
    /\ call' = Call("completeRequest", d, "", "", NoRequest, FALSE, nullptr, NoThrow)
    /\ UNCHANGED <<threshold, destinations, policy, serviceMap,
                   destinationQueues, hashOf, histVars>>

\* --------------------------------------------------------------- Service
\* The candidate set a LoadBalancer with routing table sm resolves for type t
\* when the Services hold dst (empty when t is not bound).
CandidatesOf(sm, dst, t) == IF t \in DOMAIN sm THEN dst[sm[t]] ELSE {}

\* History only: the Routed answers that are still comparable after a step,
\* i.e. those for a request type whose candidate set the step did not change.
\* An answer is kept as [dest, again]: the Destination returned, and whether
\* the same request had already been answered since the set last changed.
StillAnswered(sm2, dst2) ==
    [r \in DOMAIN answered |->
        Restrict(answered[r],
                 {k \in DOMAIN answered[r] :
                     CandidatesOf(sm2[r], dst2, k[1])
                         = CandidatesOf(serviceMap[r], destinations, k[1])})]

addDestination_replace(s, d) ==
    /\ destinations' = [destinations EXCEPT ![s] = {d}]
    /\ call' = Call("addDestination", d, s, "", NoRequest, FALSE, nullptr, NoThrow)
    /\ answered' = StillAnswered(serviceMap, destinations')
    /\ UNCHANGED <<destVars, policy, serviceMap, destinationQueues, hashOf,
                   captured, served, returned, lastRegistered>>

addDestination(s, d) ==
    /\ destinations' = [destinations EXCEPT ![s] = @ \cup {d}]
    /\ call' = Call("addDestination", d, s, "", NoRequest, FALSE, nullptr, NoThrow)
    /\ answered' = StillAnswered(serviceMap, destinations')
    /\ UNCHANGED <<destVars, policy, serviceMap, destinationQueues, hashOf,
                   captured, served, returned, lastRegistered>>

removeDestination(s, d) ==
    /\ destinations' = [destinations EXCEPT ![s] = @ \ {d}]
    /\ call' = Call("removeDestination", d, s, "", NoRequest, FALSE, nullptr, NoThrow)
    /\ answered' = StillAnswered(serviceMap, destinations')
    /\ UNCHANGED <<destVars, policy, serviceMap, destinationQueues, hashOf,
                   captured, served, returned, lastRegistered>>

\* ---------------------------------------------------------- LoadBalancer
\* The routing table after serviceMap[requestType] = service (line 75).
Registered_keepFirst(sm, requestType, s) ==
    IF requestType \in DOMAIN sm THEN sm ELSE Put(sm, requestType, s)

Registered(sm, requestType, s) == Put(sm, requestType, s)

registerService_static(r, requestType, s) ==
    /\ serviceMap' = [x \in DOMAIN serviceMap |->
                          Registered(serviceMap[x], requestType, s)]
    /\ call' = Call("registerService", nullptr, s, r, Request("", requestType),
                    FALSE, nullptr, NoThrow)
    /\ answered' = StillAnswered(serviceMap', destinations)
    /\ lastRegistered' = [lastRegistered EXCEPT ![r] = Put(@, requestType, s)]
    /\ UNCHANGED <<destVars, destinations, policy, destinationQueues, hashOf,
                   captured, served, returned>>

registerService(r, requestType, s) ==
    /\ serviceMap' = [serviceMap EXCEPT ![r] = Registered(@, requestType, s)]
    /\ call' = Call("registerService", nullptr, s, r, Request("", requestType),
                    FALSE, nullptr, NoThrow)
    /\ answered' = StillAnswered(serviceMap', destinations)
    /\ lastRegistered' = [lastRegistered EXCEPT ![r] = Put(@, requestType, s)]
    /\ UNCHANGED <<destVars, destinations, policy, destinationQueues, hashOf,
                   captured, served, returned>>

\* getDestinations either throws (line 80) or returns the bound Service's set.
getDestinations_throws(r, request) ==
    request.requestType \notin DOMAIN serviceMap[r]

getDestinations(r, request) ==
    destinations[serviceMap[r][request.requestType]]

Returned(r, request, d) ==
    Call("balanceLoad", nullptr, "", r, request, FALSE, d, NoThrow)

Thrown(r, request, what) ==
    Call("balanceLoad", nullptr, "", r, request, FALSE, nullptr, what)

\* --------------------------------------------- LeastConnectionLoadBalancer
\* The comparator passed to min_element (lines 95-97).
LessLoaded_reversed(a, b) == requestsBeingServed[a] > requestsBeingServed[b]

LessLoaded_orEqual(a, b) == requestsBeingServed[a] <= requestsBeingServed[b]

LessLoaded(a, b) == requestsBeingServed[a] < requestsBeingServed[b]

\* std::min_element over list[i..]: smallest is the index of the best so far;
\* a later element replaces it only when it compares less.
RECURSIVE min_element_from(_, _, _)
min_element_from(list, i, smallest) ==
    IF i > Len(list) THEN list[smallest]
    ELSE min_element_from(list, i + 1,
                          IF LessLoaded(list[i], list[smallest]) THEN i ELSE smallest)

min_element(list) == min_element_from(list, 2, 1)

LeastConnection_balanceLoad_sparesFull(r, request) ==
    /\ policy[r] = "LeastConnection"
    /\ IF getDestinations_throws(r, request)
       THEN call' = Thrown(r, request, NoServiceFound)
       ELSE IF \A d \in getDestinations(r, request) :
                   requestsBeingServed[d] >= threshold[d]
       THEN call' = Thrown(r, request, NoDestinations)
       ELSE call' = Returned(r, request,
                             min_element(Enumerate(getDestinations(r, request))))
    /\ UNCHANGED <<destVars, destinations, policy, serviceMap,
                   destinationQueues, hashOf, histVars>>

LeastConnection_balanceLoad_admits(r, request) ==
    /\ policy[r] = "LeastConnection"
    /\ IF getDestinations_throws(r, request)
       THEN /\ call' = Thrown(r, request, NoServiceFound)
            /\ UNCHANGED requestsBeingServed
       ELSE IF getDestinations(r, request) = {}
       THEN /\ call' = Thrown(r, request, NoDestinations)
            /\ UNCHANGED requestsBeingServed
       ELSE LET d == min_element(Enumerate(getDestinations(r, request)))
            IN  /\ call' = Returned(r, request, d)
                /\ requestsBeingServed' = [requestsBeingServed EXCEPT ![d] = @ + 1]
    /\ UNCHANGED <<threshold, destinations, policy, serviceMap,
                   destinationQueues, hashOf, histVars>>

LeastConnection_balanceLoad(r, request) ==
    /\ policy[r] = "LeastConnection"
    /\ IF getDestinations_throws(r, request)
       THEN call' = Thrown(r, request, NoServiceFound)
       ELSE IF getDestinations(r, request) = {}
       THEN call' = Thrown(r, request, NoDestinations)
       ELSE call' = Returned(r, request,
                             min_element(Enumerate(getDestinations(r, request))))
    /\ UNCHANGED <<destVars, destinations, policy, serviceMap,
                   destinationQueues, hashOf, histVars>>

\* ------------------------------------------------------ RoutedLoadBalancer
\* list[index] of lines 107-109; the vector is 0-based, the sequence 1-based.
Routed_pick_byLoad(list, id) == list[(requestsBeingServed[list[1]] % Len(list)) + 1]

Routed_pick(list, id) == list[(hashOf[id] % Len(list)) + 1]

Routed_balanceLoad(r, request) ==
    /\ policy[r] = "Routed"
    /\ IF getDestinations_throws(r, request)
       THEN /\ call' = Thrown(r, request, NoServiceFound)
            /\ answered' = answered
       ELSE IF getDestinations(r, request) = {}
       THEN /\ call' = Thrown(r, request, NoDestinations)
            /\ answered' = answered
       ELSE LET d == Routed_pick(Enumerate(getDestinations(r, request)), request.id)
                k == <<request.requestType, request.id>>
            IN  /\ call' = Returned(r, request, d)
                /\ answered' = [answered EXCEPT ![r] =
                                   Put(@, k, [dest |-> d,
                                              again |-> k \in DOMAIN answered[r]])]
    /\ UNCHANGED <<destVars, destinations, policy, serviceMap,
                   destinationQueues, hashOf, captured, served, returned, lastRegistered>>

\* -------------------------------------------------- RoundRobinLoadBalancer
\* Lines 122-126: the queue for the type, built on first use.
Materialized_always(r, request) ==
    Put(destinationQueues[r], request.requestType,
        Enumerate(getDestinations(r, request)))

Materialized(r, request) ==
    IF request.requestType \notin DOMAIN destinationQueues[r]
    THEN Put(destinationQueues[r], request.requestType,
             Enumerate(getDestinations(r, request)))
    ELSE destinationQueues[r]

\* Lines 128-130: front, pop, push.
Rotated_dropping(q) == Tail(q)

Rotated_stuck(q) == q

Rotated(q) == Tail(q) \o <<Head(q)>>

RoundRobin_balanceLoad_queueFirst(r, request) ==
    /\ policy[r] = "RoundRobin"
    /\ served[r][request.requestType] < MaxRoutes
    /\ IF getDestinations_throws(r, request)
       THEN /\ call' = Thrown(r, request, NoServiceFound)
            /\ UNCHANGED <<destinationQueues, captured, served, returned>>
       ELSE IF /\ request.requestType \notin DOMAIN destinationQueues[r]
               /\ getDestinations(r, request) = {}
       THEN /\ call' = Thrown(r, request, NoDestinations)
            /\ UNCHANGED <<destinationQueues, captured, served, returned>>
       ELSE LET t == request.requestType
                queues == Materialized(r, request)
                destination == Head(queues[t])
            IN  /\ destinationQueues' =
                       [destinationQueues EXCEPT ![r] = Put(queues, t, Rotated(queues[t]))]
                /\ call' = Returned(r, request, destination)
                /\ captured' = IF t \in DOMAIN destinationQueues[r] THEN captured
                               ELSE [captured EXCEPT ![r] = Put(@, t, queues[t])]
                /\ served' = [served EXCEPT ![r][t] = @ + 1]
                /\ returned' = [returned EXCEPT ![r][t] = Append(@, destination)]
    /\ UNCHANGED <<destVars, destinations, policy, serviceMap, hashOf, answered,
                   lastRegistered>>

RoundRobin_balanceLoad_materializeFirst(r, request) ==
    /\ policy[r] = "RoundRobin"
    /\ served[r][request.requestType] < MaxRoutes
    /\ IF getDestinations_throws(r, request)
       THEN /\ call' = Thrown(r, request, NoServiceFound)
            /\ UNCHANGED <<destinationQueues, captured, served, returned>>
       ELSE IF getDestinations(r, request) = {}
       THEN /\ call' = Thrown(r, request, NoDestinations)
            /\ destinationQueues' =
                   [destinationQueues EXCEPT ![r] = Materialized(r, request)]
            /\ UNCHANGED <<captured, served, returned>>
       ELSE LET t == request.requestType
                queues == Materialized(r, request)
                destination == Head(queues[t])
            IN  /\ destinationQueues' =
                       [destinationQueues EXCEPT ![r] = Put(queues, t, Rotated(queues[t]))]
                /\ call' = Returned(r, request, destination)
                /\ captured' = IF t \in DOMAIN destinationQueues[r] THEN captured
                               ELSE [captured EXCEPT ![r] = Put(@, t, queues[t])]
                /\ served' = [served EXCEPT ![r][t] = @ + 1]
                /\ returned' = [returned EXCEPT ![r][t] = Append(@, destination)]
    /\ UNCHANGED <<destVars, destinations, policy, serviceMap, hashOf, answered,
                   lastRegistered>>

RoundRobin_balanceLoad_oneCursor(r, request) ==
    /\ policy[r] = "RoundRobin"
    /\ served[r][request.requestType] < MaxRoutes
    /\ IF getDestinations_throws(r, request)
       THEN /\ call' = Thrown(r, request, NoServiceFound)
            /\ UNCHANGED <<destinationQueues, captured, served, returned>>
       ELSE IF getDestinations(r, request) = {}
       THEN /\ call' = Thrown(r, request, NoDestinations)
            /\ UNCHANGED <<destinationQueues, captured, served, returned>>
       ELSE LET t == request.requestType
                queues == Materialized(r, request)
                destination == Head(queues[t])
            IN  /\ destinationQueues' =
                       [destinationQueues EXCEPT ![r] =
                           [t2 \in DOMAIN queues |-> Rotated(queues[t2])]]
                /\ call' = Returned(r, request, destination)
                /\ captured' = IF t \in DOMAIN destinationQueues[r] THEN captured
                               ELSE [captured EXCEPT ![r] = Put(@, t, queues[t])]
                /\ served' = [served EXCEPT ![r][t] = @ + 1]
                /\ returned' = [returned EXCEPT ![r][t] = Append(@, destination)]
    /\ UNCHANGED <<destVars, destinations, policy, serviceMap, hashOf, answered,
                   lastRegistered>>

RoundRobin_balanceLoad(r, request) ==
    /\ policy[r] = "RoundRobin"
    /\ served[r][request.requestType] < MaxRoutes
    /\ IF getDestinations_throws(r, request)
       THEN /\ call' = Thrown(r, request, NoServiceFound)
            /\ UNCHANGED <<destinationQueues, captured, served, returned>>
       ELSE IF getDestinations(r, request) = {}
       THEN /\ call' = Thrown(r, request, NoDestinations)
            /\ UNCHANGED <<destinationQueues, captured, served, returned>>
       ELSE LET t == request.requestType
                queues == Materialized(r, request)
                destination == Head(queues[t])
            IN  /\ destinationQueues' =
                       [destinationQueues EXCEPT ![r] = Put(queues, t, Rotated(queues[t]))]
                /\ call' = Returned(r, request, destination)
                /\ captured' = IF t \in DOMAIN destinationQueues[r] THEN captured
                               ELSE [captured EXCEPT ![r] = Put(@, t, queues[t])]
                /\ served' = [served EXCEPT ![r][t] = @ + 1]
                /\ returned' = [returned EXCEPT ![r][t] = Append(@, destination)]
    /\ UNCHANGED <<destVars, destinations, policy, serviceMap, hashOf, answered,
                   lastRegistered>>

\* ------------------------------------------------------- initial states
\* The objects the caller has constructed: every Destination with a positive
\* threshold drawn from T and no request being served, the Services in S with
\* no destination yet, and one LoadBalancer per key of some P in PS with an
\* empty routing table.  IS are the request ids the caller will use, the only
\* strings std::hash is ever applied to.
Objects(T, S, PS, IS) ==
    /\ requestsBeingServed = [d \in Dests |-> 0]
    /\ threshold \in [Dests -> T]
    /\ destinations = [s \in S |-> {}]
    /\ policy \in PS
    /\ serviceMap = [r \in DOMAIN policy |-> <<>>]
    /\ destinationQueues = [r \in DOMAIN policy |-> <<>>]
    /\ hashOf \in [IS -> 0..MaxHash]
    /\ call = NoCall
    /\ captured = [r \in DOMAIN policy |-> <<>>]
    /\ served = [r \in DOMAIN policy |-> [t \in Types |-> 0]]
    /\ returned = [r \in DOMAIN policy |-> [t \in Types |-> <<>>]]
    /\ answered = [r \in DOMAIN policy |-> <<>>]
    /\ lastRegistered = [r \in DOMAIN policy |-> <<>>]

\* The same, used by one sequential caller.
Setup(T, S, PS, IS) == Objects(T, S, PS, IS) /\ callers = <<>>

\* Destinations alone, driven by acceptRequest and completeRequest.
InitDest == Setup(1..MaxThreshold, {}, {<<>>}, {})

NextDest ==
    \E d \in Dests :
        \/ acceptRequest(d) /\ UNCHANGED callers
        \/ completeRequest(d) /\ UNCHANGED callers

SpecDest == InitDest /\ [][NextDest]_vars

\* The calls a caller can make on the constructed objects, for the request
\* ids in IS and the request types in TS.
Requests(IS, TS) == {Request(i, t) : i \in IS, t \in TS}
OneRouter(P) == {[r \in {"R1"} |-> p] : p \in P}

DestinationCall ==
    \E d \in Dests :
        (acceptRequest(d) \/ completeRequest(d)) /\ UNCHANGED callers

ServiceCall(D) ==
    \E s \in DOMAIN destinations, d \in D :
        (addDestination(s, d) \/ removeDestination(s, d)) /\ UNCHANGED callers

RegisterCall(TS) ==
    \E r \in DOMAIN policy, t \in TS, s \in DOMAIN destinations :
        registerService(r, t, s) /\ UNCHANGED callers

\* One LeastConnectionLoadBalancer over one Service, each Destination with
\* the smallest or the largest threshold.
InitLC == Setup({1, MaxThreshold}, {"s1"}, OneRouter({"LeastConnection"}), {})

NextLC ==
    \/ DestinationCall
    \/ ServiceCall(Dests)
    \/ RegisterCall({"http"})
    \/ \E r \in DOMAIN policy, q \in Requests({"REQ1"}, {"http"}) :
           LeastConnection_balanceLoad(r, q) /\ UNCHANGED callers

SpecLC == InitLC /\ [][NextLC]_vars

\* One RoutedLoadBalancer over one Service, for every std::hash.
InitRouted == Setup({1}, {"s1"}, OneRouter({"Routed"}), Ids)

NextRouted ==
    \/ DestinationCall
    \/ ServiceCall(Dests)
    \/ RegisterCall({"http"})
    \/ \E r \in DOMAIN policy, q \in Requests(Ids, {"http"}) :
           Routed_balanceLoad(r, q) /\ UNCHANGED callers

SpecRouted == InitRouted /\ [][NextRouted]_vars

\* One RoundRobinLoadBalancer over one Service.
InitRR == Setup({1}, {"s1"}, OneRouter({"RoundRobin"}), {})

NextRR ==
    \/ DestinationCall
    \/ ServiceCall(Dests)
    \/ RegisterCall({"http"})
    \/ \E r \in DOMAIN policy, q \in Requests({"REQ1"}, {"http"}) :
           RoundRobin_balanceLoad(r, q) /\ UNCHANGED callers

SpecRR == InitRR /\ [][NextRR]_vars

\* One LoadBalancer of any of the three classes over two Services that share
\* all Destinations but the last, with the calls that configure it and route
\* through it.
Shared == {d \in Dests : d < NumDest}

Init == Setup({1}, Services, OneRouter(Policies), {"REQ1"})

Next ==
    \/ ServiceCall(Shared)
    \/ RegisterCall({"http"})
    \/ \E r \in DOMAIN policy, q \in Requests({"REQ1"}, {"http"}) :
           \/ LeastConnection_balanceLoad(r, q) /\ UNCHANGED callers
           \/ Routed_balanceLoad(r, q) /\ UNCHANGED callers
           \/ RoundRobin_balanceLoad(r, q) /\ UNCHANGED callers

Spec == Init /\ [][Next]_vars

\* One LoadBalancer of any of the three classes over one Service, with every
\* call of the public interface.
InitAll == Setup({1}, {"s1"}, OneRouter(Policies), {"REQ1"})

NextAll ==
    \/ DestinationCall
    \/ ServiceCall(Shared)
    \/ RegisterCall({"http"})
    \/ \E r \in DOMAIN policy, q \in Requests({"REQ1"}, {"http"}) :
           \/ LeastConnection_balanceLoad(r, q) /\ UNCHANGED callers
           \/ Routed_balanceLoad(r, q) /\ UNCHANGED callers
           \/ RoundRobin_balanceLoad(r, q) /\ UNCHANGED callers

SpecAll == InitAll /\ [][NextAll]_vars

\* Two LoadBalancers of any classes over one Service that holds the first
\* Destination or none, with both request types.
InitTwo == Setup({1}, {"s1"}, [Routers -> Policies], {"REQ1"})

NextTwo ==
    \/ ServiceCall({1})
    \/ RegisterCall(Types)
    \/ \E r \in DOMAIN policy, q \in Requests({"REQ1"}, Types) :
           \/ LeastConnection_balanceLoad(r, q) /\ UNCHANGED callers
           \/ Routed_balanceLoad(r, q) /\ UNCHANGED callers
           \/ RoundRobin_balanceLoad(r, q) /\ UNCHANGED callers

SpecTwo == InitTwo /\ [][NextTwo]_vars

\* Two RoundRobinLoadBalancers with both request types registered to the same
\* Service, which holds all Destinations but the last; the caller adds and
\* removes the last one and routes through both.
InitTwoRR ==
    /\ requestsBeingServed = [d \in Dests |-> 0]
    /\ threshold = [d \in Dests |-> 1]
    /\ destinations = [s \in {"s1"} |-> Shared]
    /\ policy = [r \in Routers |-> "RoundRobin"]
    /\ serviceMap = [r \in Routers |-> [t \in Types |-> "s1"]]
    /\ destinationQueues = [r \in Routers |-> <<>>]
    /\ hashOf = <<>>
    /\ call = NoCall
    /\ captured = [r \in Routers |-> <<>>]
    /\ served = [r \in Routers |-> [t \in Types |-> 0]]
    /\ returned = [r \in Routers |-> [t \in Types |-> <<>>]]
    /\ answered = [r \in Routers |-> <<>>]
    /\ lastRegistered = [r \in Routers |-> [t \in Types |-> "s1"]]
    /\ callers = <<>>

NextTwoRR ==
    \/ ServiceCall({NumDest})
    \/ \E r \in DOMAIN policy, q \in Requests({"REQ1"}, Types) :
           RoundRobin_balanceLoad(r, q) /\ UNCHANGED callers

SpecTwoRR == InitTwoRR /\ [][NextTwoRR]_vars

\* Several callers at once, each repeating balanceLoad, acceptRequest on the
\* Destination it got, completeRequest on it.  A LeastConnectionLoadBalancer
\* over a Service holding every Destination and a RoutedLoadBalancer over a
\* Service holding all but the last share the Destination objects.  Each call
\* of acceptRequest and of completeRequest runs under the lock of its
\* Destination, hence as one step.
Callers == {"c1", "c2", "c3"}
Caller(pc, dest) == [pc |-> pc, dest |-> dest]

InitConc ==
    /\ requestsBeingServed = [d \in Dests |-> 0]
    /\ threshold \in [Dests -> {1, MaxThreshold}]
    /\ destinations = [s \in Services |-> IF s = "s1" THEN Dests ELSE Shared]
    /\ policy = [r \in Routers |-> IF r = "R1" THEN "LeastConnection" ELSE "Routed"]
    /\ serviceMap = [r \in Routers |->
                        [t \in {"http"} |-> IF r = "R1" THEN "s1" ELSE "s2"]]
    /\ destinationQueues = [r \in Routers |-> <<>>]
    /\ hashOf \in [{"REQ1"} -> 0..MaxHash]
    /\ call = NoCall
    /\ captured = [r \in Routers |-> <<>>]
    /\ served = [r \in Routers |-> [t \in Types |-> 0]]
    /\ returned = [r \in Routers |-> [t \in Types |-> <<>>]]
    /\ answered = [r \in Routers |-> <<>>]
    /\ lastRegistered = serviceMap
    /\ callers = [c \in Callers |-> Caller("route", nullptr)]

CallerRoute(c) ==
    /\ callers[c].pc = "route"
    /\ \E r \in DOMAIN policy, q \in Requests({"REQ1"}, {"http"}) :
           \/ LeastConnection_balanceLoad(r, q)
           \/ Routed_balanceLoad(r, q)
    /\ callers' = [callers EXCEPT ![c] = IF call'.thrown = NoThrow
                                         THEN Caller("accept", call'.ret)
                                         ELSE @]

CallerAccept(c) ==
    /\ callers[c].pc = "accept"
    /\ acceptRequest(callers[c].dest)
    /\ callers' = [callers EXCEPT ![c].pc = "release"]

CallerRelease(c) ==
    /\ callers[c].pc = "release"
    /\ completeRequest(callers[c].dest)
    /\ callers' = [callers EXCEPT ![c] = Caller("route", nullptr)]

NextConc == \E c \in Callers : CallerRoute(c) \/ CallerAccept(c) \/ CallerRelease(c)

SpecConc == InitConc /\ [][NextConc]_vars

\* main: dest1, dest2 and dest3 with their thresholds, placed at distinct
\* addresses in whatever order the build lays them out, all three added to
\* one Service that the three LoadBalancers register under "http".
mainThresholds == <<12, 20, 15>>
mainLoadBalancers == {"leastConnectionLB", "routedLB", "roundRobinLB"}
Placements ==
    {a \in [DOMAIN mainThresholds -> Dests] :
        \A i, j \in DOMAIN mainThresholds : a[i] = a[j] => i = j}
Placed(a) == {a[i] : i \in DOMAIN mainThresholds}

InitMain ==
    /\ requestsBeingServed = [d \in Dests |-> 0]
    /\ \E a \in Placements :
           /\ threshold = [d \in Dests |->
                              IF d \in Placed(a)
                              THEN mainThresholds[CHOOSE i \in DOMAIN mainThresholds : a[i] = d]
                              ELSE 1]
           /\ destinations = [s \in {"service"} |-> Placed(a)]
    /\ policy = [r \in mainLoadBalancers |->
                    IF r = "leastConnectionLB" THEN "LeastConnection"
                    ELSE IF r = "routedLB" THEN "Routed" ELSE "RoundRobin"]
    /\ serviceMap = [r \in mainLoadBalancers |-> [t \in {"http"} |-> "service"]]
    /\ destinationQueues = [r \in mainLoadBalancers |-> <<>>]
    /\ hashOf \in [Ids -> 0..MaxHash]
    /\ call = NoCall
    /\ captured = [r \in mainLoadBalancers |-> <<>>]
    /\ served = [r \in mainLoadBalancers |-> [t \in Types |-> 0]]
    /\ returned = [r \in mainLoadBalancers |-> [t \in Types |-> <<>>]]
    /\ answered = [r \in mainLoadBalancers |-> <<>>]
    /\ lastRegistered = serviceMap
    /\ callers = <<>>

\* Line 190 has returned a Destination and line 194 has not run yet.
mainHoldsDestination == call.op = "balanceLoad" /\ call.thrown = NoThrow

\* Lines 157-190: the choice of a LoadBalancer and of an id, then balanceLoad.
mainBalanceLoad ==
    /\ ~mainHoldsDestination
    /\ \E lb \in mainLoadBalancers, q \in Requests(Ids, {"http"}) :
           \/ LeastConnection_balanceLoad(lb, q)
           \/ Routed_balanceLoad(lb, q)
           \/ RoundRobin_balanceLoad(lb, q)
    /\ UNCHANGED callers

\* Line 194.
mainCompleteRequest ==
    /\ mainHoldsDestination
    /\ completeRequest(call.ret)
    /\ UNCHANGED callers

NextMain == mainBalanceLoad \/ mainCompleteRequest

SpecMain == InitMain /\ [][NextMain]_vars

\* ======================================================================
\* Destination load accounting
\* ======================================================================

\* C1: from load 0 and a positive threshold, whatever acceptRequest and
\* completeRequest calls are made, every Destination keeps
\* 0 <= requestsBeingServed <= threshold; and with threshold 1 an acceptRequest
\* at load 0 returns true and an acceptRequest right after an accepted one on
\* the same Destination returns false.
C1_LoadWithinThreshold ==
    /\ [](\A d \in Dests : /\ 0 <= requestsBeingServed[d]
                           /\ requestsBeingServed[d] <= threshold[d])
    /\ [][\A d \in Dests :
            (threshold[d] = 1 /\ call'.op = "acceptRequest" /\ call'.dest = d)
            => /\ requestsBeingServed[d] = 0 => call'.accepted
               /\ (call.op = "acceptRequest" /\ call.dest = d /\ call.accepted)
                  => ~call'.accepted]_vars

C1_Witness ==
    \E d \in Dests :
        /\ threshold[d] = 1
        /\ requestsBeingServed[d] = 1
        /\ call.op = "acceptRequest" /\ call.dest = d /\ ~call.accepted

\* C2: acceptRequest returns true and adds exactly 1 to requestsBeingServed
\* exactly when requestsBeingServed < threshold before the call; otherwise it
\* returns false and changes nothing of any Destination, Service or
\* LoadBalancer.
C2_AcceptIffBelowThreshold ==
    [][\A d \in Dests :
        (call'.op = "acceptRequest" /\ call'.dest = d)
        => /\ call'.accepted <=> requestsBeingServed[d] < threshold[d]
           /\ call'.accepted
              => requestsBeingServed' = [requestsBeingServed EXCEPT ![d] = @ + 1]
           /\ ~call'.accepted
              => UNCHANGED <<requestsBeingServed, threshold, destinations,
                             policy, serviceMap, destinationQueues>>]_vars

C2_Witness ==
    \E d \in Dests, r \in DOMAIN serviceMap :
        /\ call.op = "acceptRequest" /\ call.dest = d /\ ~call.accepted
        /\ requestsBeingServed[d] = threshold[d]
        /\ \E s \in DOMAIN destinations : d \in destinations[s]
        /\ DOMAIN serviceMap[r] # {}

\* C3: completeRequest subtracts exactly 1 from requestsBeingServed when it is
\* positive and changes nothing when it is 0, so the load is never negative.
C3_CompleteFloorsAtZero ==
    [][\A d \in Dests :
        (call'.op = "completeRequest" /\ call'.dest = d)
        => /\ requestsBeingServed[d] > 0
              => requestsBeingServed' = [requestsBeingServed EXCEPT ![d] = @ - 1]
           /\ requestsBeingServed[d] = 0
              => requestsBeingServed' = requestsBeingServed
           /\ requestsBeingServed'[d] >= 0]_vars

C3_Witness ==
    \E d \in Dests :
        /\ call.op = "completeRequest" /\ call.dest = d
        /\ \A e \in Dests : requestsBeingServed[e] = 0

\* ======================================================================
\* LeastConnectionLoadBalancer
\* ======================================================================

\* The candidate set of the last balanceLoad call, as the caller sees it in
\* the state the call returned in (balanceLoad of this class changes nothing).
Candidates(r, t) == CandidatesOf(serviceMap[r], destinations, t)
LastCandidates ==
    IF call.op = "balanceLoad" THEN Candidates(call.lb, call.request.requestType)
    ELSE {}
RoutedTo(d) == call.op = "balanceLoad" /\ call.thrown = NoThrow /\ call.ret = d
AllFull(S) == \A d \in S : requestsBeingServed[d] = threshold[d]

\* C4: whenever the candidate set is non-empty, LeastConnection balanceLoad
\* returns a candidate whose requestsBeingServed is <= that of every candidate.
C4_LeastLoadedIsMinimal ==
    (call.op = "balanceLoad" /\ LastCandidates # {})
    => /\ call.thrown = NoThrow
       /\ call.ret \in LastCandidates
       /\ \A e \in LastCandidates :
              requestsBeingServed[call.ret] <= requestsBeingServed[e]

C4_Witness ==
    \E d \in Dests :
        /\ RoutedTo(d)
        /\ Cardinality(LastCandidates) = NumDest
        /\ \A e \in LastCandidates \ {d} :
               requestsBeingServed[d] < requestsBeingServed[e]
        /\ \E e \in LastCandidates : e < d

\* C5: among the candidates that share the minimum load, LeastConnection
\* balanceLoad returns the first in the set's enumeration order; with D1 before
\* D2, both of threshold 1 and load 0, balanceLoad returns D1, and after an
\* accepted acceptRequest on D1 the next balanceLoad returns D2.
C5_TieBreakFirst ==
    /\ [](\A d \in Dests :
            RoutedTo(d)
            => \A e \in LastCandidates :
                   requestsBeingServed[e] = requestsBeingServed[d] => d <= e)
    /\ [](\A d1, d2 \in Dests :
            ( /\ d1 < d2 /\ LastCandidates = {d1, d2}
              /\ threshold[d1] = 1 /\ threshold[d2] = 1
              /\ requestsBeingServed[d1] = 0 /\ requestsBeingServed[d2] = 0
              /\ call.op = "balanceLoad" )
            => RoutedTo(d1))
    /\ [][\A d1, d2 \in Dests :
            ( /\ d1 < d2
              /\ threshold[d1] = 1 /\ threshold[d2] = 1
              /\ requestsBeingServed[d2] = 0
              /\ call.op = "acceptRequest" /\ call.dest = d1 /\ call.accepted
              /\ call'.op = "balanceLoad"
              /\ CandidatesOf(serviceMap[call'.lb], destinations,
                              call'.request.requestType) = {d1, d2} )
            => call'.thrown = NoThrow /\ call'.ret = d2]_vars

C5_Witness ==
    \E d1, d2 \in Dests :
        /\ d1 < d2 /\ LastCandidates = {d1, d2}
        /\ threshold[d1] = 1 /\ threshold[d2] = 1
        /\ requestsBeingServed[d1] = 1 /\ requestsBeingServed[d2] = 0
        /\ RoutedTo(d2)

\* C6: LeastConnection balanceLoad does not look at threshold: when the
\* candidate set is non-empty and every candidate is at its threshold it still
\* returns a candidate and throws nothing, and an acceptRequest on that
\* candidate right afterwards returns false and leaves its load unchanged.
C6_RouteIgnoresThreshold ==
    /\ []((call.op = "balanceLoad" /\ LastCandidates # {} /\ AllFull(LastCandidates))
          => call.thrown = NoThrow /\ call.ret \in LastCandidates)
    /\ [][\A d \in Dests :
            ( /\ RoutedTo(d) /\ AllFull(LastCandidates)
              /\ call'.op = "acceptRequest" /\ call'.dest = d )
            => /\ ~call'.accepted
               /\ requestsBeingServed' = requestsBeingServed]_vars

C6_Witness ==
    \E d \in Dests :
        /\ call.op = "acceptRequest" /\ call.dest = d /\ ~call.accepted
        /\ Cardinality(Candidates("R1", "http")) >= 2
        /\ d \in Candidates("R1", "http")
        /\ AllFull(Candidates("R1", "http"))

\* ======================================================================
\* RoutedLoadBalancer
\* ======================================================================

\* C7: a Routed balanceLoad for a request id and type that was already
\* answered, with the candidate set of the type unchanged since that answer,
\* returns the same Destination again, whatever acceptRequest, completeRequest
\* and balanceLoad calls for other ids were made in between.
C7_RoutedIsDeterministic ==
    [][\A r \in DOMAIN policy :
        LET k == <<call'.request.requestType, call'.request.id>>
        IN  ( /\ call'.op = "balanceLoad" /\ call'.lb = r
              /\ policy[r] = "Routed"
              /\ k \in DOMAIN answered[r] )
            => /\ call'.thrown = NoThrow
               /\ call'.ret = answered[r][k].dest]_vars

C7_Witness ==
    \E r \in DOMAIN policy, d \in Dests :
        LET k == <<call.request.requestType, call.request.id>>
        IN  /\ RoutedTo(d) /\ call.lb = r /\ policy[r] = "Routed"
            /\ answered[r][k].again
            /\ \E k2 \in DOMAIN answered[r] : answered[r][k2].dest # d
            /\ Cardinality(LastCandidates) = NumDest
            /\ \E e \in Dests : requestsBeingServed[e] > 0

\* ======================================================================
\* RoundRobinLoadBalancer
\* ======================================================================

\* The element of the captured sequence that the k-th successful call returns.
Range(q) == {q[i] : i \in 1..Len(q)}
KthOf(q, k) == q[((k - 1) % Len(q)) + 1]

\* C8: with the rotation of a request type materialized as a sequence of n
\* Destinations, the k-th successful RoundRobin balanceLoad for that type
\* returns the element at position ((k-1) mod n) of that sequence.
C8_RoundRobinCycles ==
    \A r \in DOMAIN policy :
        ( /\ call.op = "balanceLoad" /\ call.lb = r /\ call.thrown = NoThrow
          /\ policy[r] = "RoundRobin" )
        => LET t == call.request.requestType
           IN  /\ t \in DOMAIN captured[r]
               /\ served[r][t] >= 1
               /\ call.ret = KthOf(captured[r][t], served[r][t])

C8_Witness ==
    \E r \in DOMAIN policy :
        /\ call.op = "balanceLoad" /\ call.lb = r /\ call.thrown = NoThrow
        /\ policy[r] = "RoundRobin"
        /\ Len(captured[r][call.request.requestType]) = 3
        /\ served[r][call.request.requestType] = 4
        /\ call.ret = captured[r][call.request.requestType][1]

\* A step that is a balanceLoad call on r for a type whose queue exists.
LaterRoute(r, t) ==
    /\ call'.op = "balanceLoad" /\ call'.lb = r
    /\ call'.request.requestType = t
    /\ policy[r] = "RoundRobin"
    /\ t \in DOMAIN destinationQueues[r]

\* C9 as stated: once the rotation of a type is materialized, every later
\* balanceLoad call for the type returns the next element of the captured
\* sequence.
C9_EveryLaterRouteReturnsNext ==
    [][\A r \in DOMAIN policy, t \in Types :
        LaterRoute(r, t)
        => /\ call'.thrown = NoThrow
           /\ call'.ret = KthOf(captured[r][t], served[r][t] + 1)]_vars

\* C9 amended: once the rotation of a type is materialized, addDestination and
\* removeDestination leave it alone, and every later balanceLoad call for the
\* type made while the bound Service has a candidate returns the next element
\* of the captured sequence, be it still a candidate or not; a call made while
\* the bound Service has no candidate throws and leaves the rotation alone.
C9_StaleRotation ==
    /\ [][call'.op \in {"addDestination", "removeDestination"}
          => UNCHANGED <<destinationQueues, captured>>]_vars
    /\ [][\A r \in DOMAIN policy, t \in Types :
            LaterRoute(r, t)
            => IF Candidates(r, t) # {}
               THEN /\ call'.thrown = NoThrow
                    /\ call'.ret = KthOf(captured[r][t], served[r][t] + 1)
                    /\ call'.ret \in Range(captured[r][t])
               ELSE /\ call'.thrown = NoDestinations
                    /\ UNCHANGED <<destinationQueues, captured, served>>]_vars

C9_Witness ==
    \E r \in DOMAIN policy, d \in Dests :
        /\ RoutedTo(d) /\ call.lb = r /\ policy[r] = "RoundRobin"
        /\ d \notin LastCandidates
        /\ \E e \in LastCandidates :
               e \notin Range(captured[r][call.request.requestType])
        /\ served[r][call.request.requestType] > Len(captured[r][call.request.requestType])

\* ======================================================================
\* Routing table
\* ======================================================================

\* The candidate set, in the current state, of the Service last registered on
\* r under t.
BoundCandidates(r, t) ==
    IF t \in DOMAIN lastRegistered[r] THEN destinations[lastRegistered[r][t]]
    ELSE {}

\* C10 as stated: under every policy a successful balanceLoad returns a
\* member, at call time, of the candidate set of the Service last registered
\* under the request's type.
C10_RouteReturnsCurrentMember ==
    \A d \in Dests :
        RoutedTo(d) => d \in BoundCandidates(call.lb, call.request.requestType)

\* C10 amended: under LeastConnection and Routed a successful balanceLoad
\* returns a member, at call time, of the candidate set of the Service last
\* registered under the request's type; under RoundRobin it returns a member
\* of the sequence captured when the rotation of the type was materialized,
\* and that Service's candidate set is non-empty at call time.
C10_RouteReturnsMember ==
    \A d \in Dests :
        RoutedTo(d)
        => LET r == call.lb
               t == call.request.requestType
           IN  /\ BoundCandidates(r, t) # {}
               /\ IF policy[r] = "RoundRobin"
                  THEN d \in Range(captured[r][t])
                  ELSE d \in BoundCandidates(r, t)

C10_Witness ==
    \E d \in Dests :
        /\ RoutedTo(d)
        /\ policy[call.lb] # "RoundRobin"
        /\ call.request.requestType \in DOMAIN lastRegistered[call.lb]
        /\ lastRegistered[call.lb][call.request.requestType] = "s2"
        /\ d \in destinations["s2"]
        /\ d \notin destinations["s1"]
        /\ destinations["s1"] # {}

\* C11: under every policy, balanceLoad throws "No service found for the
\* request type." exactly when no Service was ever registered on that
\* LoadBalancer under the request's type; a registration on the other
\* LoadBalancer or under the other type does not count.
C11_UnknownTypeIffNeverRegistered ==
    call.op = "balanceLoad"
    => (call.thrown = NoServiceFound
        <=> call.request.requestType \notin DOMAIN lastRegistered[call.lb])

C11_Witness ==
    \E r2 \in DOMAIN policy, t2 \in Types :
        /\ call.op = "balanceLoad" /\ call.thrown = NoServiceFound
        /\ r2 # call.lb /\ t2 # call.request.requestType
        /\ call.request.requestType \in DOMAIN lastRegistered[r2]
        /\ t2 \in DOMAIN lastRegistered[call.lb]
        /\ destinations[lastRegistered[call.lb][t2]] # {}

\* C12: under every policy, a balanceLoad for a type with a registered Service
\* throws "No destinations available." exactly when the Service last
\* registered under the type has no destination at call time, also under
\* RoundRobin once the queue of the type exists.
C12_NoDestinationsIffEmpty ==
    ( /\ call.op = "balanceLoad"
      /\ call.request.requestType \in DOMAIN lastRegistered[call.lb] )
    => (call.thrown = NoDestinations
        <=> BoundCandidates(call.lb, call.request.requestType) = {})

C12_Witness ==
    /\ call.op = "balanceLoad" /\ call.thrown = NoDestinations
    /\ policy[call.lb] = "RoundRobin"
    /\ call.request.requestType \in DOMAIN destinationQueues[call.lb]
    /\ served[call.lb][call.request.requestType] >= 2

\* ======================================================================
\* What balanceLoad changes
\* ======================================================================

\* C13: under every policy a balanceLoad that throws changes nothing: no
\* entry of serviceMap, no Service's destinations, no requestsBeingServed, and
\* under RoundRobin no queue is created or rotated.
C13_FailedRouteChangesNothing ==
    [][(call'.op = "balanceLoad" /\ call'.thrown # NoThrow)
       => UNCHANGED <<requestsBeingServed, threshold, destinations, policy,
                      serviceMap, destinationQueues>>]_vars

C13_Witness ==
    /\ call.op = "balanceLoad" /\ call.thrown = NoDestinations
    /\ policy[call.lb] = "RoundRobin"
    /\ call.request.requestType \in DOMAIN destinationQueues[call.lb]
    /\ Len(destinationQueues[call.lb][call.request.requestType]) >= 2
    /\ \E d \in Dests : requestsBeingServed[d] > 0

\* C14: under every policy a balanceLoad that returns a Destination changes
\* no requestsBeingServed, no Service's destinations and no serviceMap;
\* LeastConnection and Routed change nothing at all, RoundRobin only the
\* queue of the routed type on that LoadBalancer.
C14_RouteAdmitsNothing ==
    [][(call'.op = "balanceLoad" /\ call'.thrown = NoThrow)
       => /\ UNCHANGED <<requestsBeingServed, threshold, destinations, policy,
                         serviceMap>>
          /\ policy[call'.lb] # "RoundRobin" => UNCHANGED destinationQueues
          /\ \A r \in DOMAIN policy, t \in Types :
                 (r # call'.lb \/ t # call'.request.requestType)
                 => /\ t \in DOMAIN destinationQueues'[r]
                       <=> t \in DOMAIN destinationQueues[r]
                    /\ t \in DOMAIN destinationQueues[r]
                       => destinationQueues'[r][t] = destinationQueues[r][t]]_vars

C14_Witness ==
    \E d \in Dests :
        /\ RoutedTo(d)
        /\ requestsBeingServed[d] = 0
        /\ \E e \in LastCandidates : requestsBeingServed[e] > 0

\* ======================================================================
\* Service membership
\* ======================================================================

\* C15: addDestination of a Destination that is already in the Service
\* changes nothing, so adding twice is adding once and the Destination is in
\* the set once; removeDestination of one that is absent changes nothing; and
\* neither changes another member, another Service or any requestsBeingServed.
C15_MembershipIsASet ==
    [][\A s \in DOMAIN destinations, d \in Dests :
        /\ (call'.op = "addDestination" /\ call'.service = s /\ call'.dest = d)
           => /\ d \in destinations'[s]
              /\ destinations'[s] \ {d} = destinations[s] \ {d}
              /\ d \in destinations[s] => destinations'[s] = destinations[s]
              /\ Cardinality(destinations'[s]) =
                     Cardinality(destinations[s])
                         + (IF d \in destinations[s] THEN 0 ELSE 1)
              /\ \A s2 \in DOMAIN destinations \ {s} :
                     destinations'[s2] = destinations[s2]
              /\ UNCHANGED <<requestsBeingServed, threshold>>
        /\ (call'.op = "removeDestination" /\ call'.service = s /\ call'.dest = d)
           => /\ d \notin destinations'[s]
              /\ destinations'[s] \ {d} = destinations[s] \ {d}
              /\ d \notin destinations[s] => destinations'[s] = destinations[s]
              /\ \A s2 \in DOMAIN destinations \ {s} :
                     destinations'[s2] = destinations[s2]
              /\ UNCHANGED <<requestsBeingServed, threshold>>]_vars

C15_Witness ==
    \E s \in DOMAIN destinations, d \in Dests :
        /\ call.op = "addDestination" /\ call.service = s /\ call.dest = d
        /\ Cardinality(destinations[s]) = NumDest
        /\ requestsBeingServed[d] > 0

\* ======================================================================
\* RoundRobin cursors
\* ======================================================================

\* The Destination the next balanceLoad on r for type t returns (line 128),
\* nullptr when it throws.
NextReturn(r, t) ==
    IF getDestinations_throws(r, Request("REQ1", t)) THEN nullptr
    ELSE IF getDestinations(r, Request("REQ1", t)) = {} THEN nullptr
    ELSE Head(Materialized(r, Request("REQ1", t))[t])

\* C16: a RoundRobin balanceLoad for one type on one LoadBalancer does not
\* change the Destination the next balanceLoad returns for another type on
\* the same LoadBalancer or for any type on another LoadBalancer, even with all
\* of them registered to the same Service.
C16_CursorPerRouterAndType ==
    [][\A r \in DOMAIN policy, t \in Types :
        ( /\ call'.op = "balanceLoad"
          /\ policy[call'.lb] = "RoundRobin"
          /\ (r # call'.lb \/ t # call'.request.requestType) )
        => NextReturn(r, t)' = NextReturn(r, t)]_vars

C16_Witness ==
    \E r2 \in DOMAIN policy, t2 \in Types, d \in Dests :
        LET r1 == call.lb
            t1 == call.request.requestType
        IN  /\ RoutedTo(d) /\ r2 # r1 /\ t2 # t1
            /\ serviceMap[r1][t1] = serviceMap[r1][t2]
            /\ serviceMap[r1][t1] = serviceMap[r2][t1]
            /\ t2 \in DOMAIN destinationQueues[r1]
            /\ t1 \in DOMAIN destinationQueues[r2]
            /\ NextReturn(r1, t2) # NextReturn(r1, t1)
            /\ NextReturn(r2, t1) # NextReturn(r1, t1)
            /\ NextReturn(r2, t1) # NextReturn(r1, t2)

\* ======================================================================
\* Concurrent callers
\* ======================================================================

\* C17: with several callers interleaving balanceLoad, acceptRequest and
\* completeRequest on Destinations shared by two Services and two
\* LoadBalancers, each acceptRequest and completeRequest being one step,
\* requestsBeingServed of every Destination stays between 0 and its threshold.
C17_ConcurrentLoadWithinThreshold ==
    \A c \in DOMAIN callers, d \in Dests :
        /\ 0 <= requestsBeingServed[d]
        /\ requestsBeingServed[d] <= threshold[d]

\* Two callers were routed to the same Destination before either was
\* admitted; the first took its last slot and the second was refused.
C17_Witness ==
    \E c1, c2 \in DOMAIN callers :
        /\ c1 # c2
        /\ callers[c1].pc = "release" /\ callers[c2].pc = "release"
        /\ callers[c1].dest = callers[c2].dest
        /\ call.op = "acceptRequest" /\ ~call.accepted
        /\ call.dest = callers[c1].dest
        /\ requestsBeingServed[call.dest] = threshold[call.dest]
        /\ \E s1, s2 \in DOMAIN destinations :
               s1 # s2 /\ call.dest \in destinations[s1] \cap destinations[s2]

\* ======================================================================
\* RoundRobin queues
\* ======================================================================

\* q is c started at some position and wrapped around.
IsRotationOf(q, c) ==
    /\ Len(q) = Len(c)
    /\ \E k \in 0..(Len(c) - 1) :
           \A i \in 1..Len(c) : q[i] = c[((i - 1 + k) % Len(c)) + 1]

\* How many of the n returns starting with the k-th were d.
TimesReturned(ret, k, n, d) == Cardinality({i \in k..(k + n - 1) : ret[i] = d})

\* C18: every queue of a RoundRobinLoadBalancer that exists is non-empty and
\* is the sequence captured when it was built, started at some position and
\* wrapped around; and among any n consecutive successful balanceLoad calls
\* for one type, n being the length of the captured sequence, each captured
\* Destination is returned exactly once.
C18_QueueIsRotationOfCaptured ==
    \A r \in DOMAIN policy :
        \A t \in DOMAIN destinationQueues[r] :
            LET q == destinationQueues[r][t]
                c == captured[r][t]
                ret == returned[r][t]
            IN  /\ Len(q) >= 1
                /\ IsRotationOf(q, c)
                /\ \A k \in 1..(Len(ret) - Len(c) + 1) :
                       \A d \in Range(c) : TimesReturned(ret, k, Len(c), d) = 1

C18_Witness ==
    \E r \in DOMAIN policy :
        \E t \in DOMAIN destinationQueues[r] :
            /\ Len(captured[r][t]) >= 2
            /\ Len(returned[r][t]) > Len(captured[r][t])
            /\ destinationQueues[r][t] # captured[r][t]
            /\ Range(captured[r][t]) # Candidates(r, t)

\* ======================================================================
\* LeastConnection with equal thresholds
\* ======================================================================

\* The last call was a successful LeastConnection balanceLoad over candidates
\* that all have the threshold c, one of them serving fewer than c requests.
RoomAmongEquals(c) ==
    /\ call.op = "balanceLoad" /\ call.thrown = NoThrow
    /\ policy[call.lb] = "LeastConnection"
    /\ c > 0
    /\ \A e \in LastCandidates : threshold[e] = c
    /\ \E e \in LastCandidates : requestsBeingServed[e] < c

\* C19: when all candidates have the same threshold c > 0 and one of them
\* serves fewer than c requests, the Destination a LeastConnection balanceLoad
\* returns serves fewer than c, and acceptRequest called on it as the very
\* next operation returns true and counts the request.
C19_EqualThresholdsAdmit ==
    /\ [](\A c \in 1..MaxThreshold :
            RoomAmongEquals(c) => requestsBeingServed[call.ret] < c)
    /\ [][\A c \in 1..MaxThreshold :
            ( /\ RoomAmongEquals(c)
              /\ call'.op = "acceptRequest" /\ call'.dest = call.ret )
            => /\ call'.accepted
               /\ requestsBeingServed'[call.ret] = requestsBeingServed[call.ret] + 1]_vars

C19_Witness ==
    \E d \in Dests :
        /\ RoutedTo(d) /\ RoomAmongEquals(threshold[d])
        /\ \E e \in LastCandidates : requestsBeingServed[e] = threshold[e]
        /\ \E e \in LastCandidates : e < d /\ requestsBeingServed[e] > requestsBeingServed[d]
        /\ requestsBeingServed[d] > 0

\* ======================================================================
\* The console driver
\* ======================================================================

\* C20: in main's loop requestsBeingServed is 0 for each of the three
\* Destinations in every state, and every balanceLoad through
\* leastConnectionLB returns the same Destination, the first of the set in
\* enumeration order.
C20_DriverAlwaysIdle ==
    /\ \A s \in DOMAIN destinations :
           \A d \in destinations[s] : requestsBeingServed[d] = 0
    /\ \A d \in Dests :
           (RoutedTo(d) /\ policy[call.lb] = "LeastConnection")
           => d = Enumerate(LastCandidates)[1]

C20_Witness ==
    \E d \in Dests, r \in DOMAIN policy :
        /\ RoutedTo(d) /\ policy[call.lb] = "LeastConnection"
        /\ Cardinality(LastCandidates) = Len(mainThresholds)
        /\ threshold[d] # mainThresholds[1]
        /\ policy[r] = "RoundRobin"
        /\ served[r]["http"] >= 2
        /\ \E k \in DOMAIN answered["routedLB"] :
               answered["routedLB"][k].dest # d

====
